---------------------------- MODULE Spec2Model ----------------------------
(***************************************************************************)
(* Library of Congress call numbers: the parser (Book.call_num_parse), the *)
(* comparator (Book.__lt__), the loader (read_books) and the reporter      *)
(* (print_books) of books.py.                                              *)
(*                                                                         *)
(* A Python str is a sequence of one-character strings.  None is a value   *)
(* that is no str.                                                         *)
(***************************************************************************)
EXTENDS Integers, Sequences, FiniteSets, TLC

VARIABLES pc, pieces, self, other, third, parts, result, lines, books,
          stdout, raised

vars == <<pc, pieces, self, other, third, parts, result, lines, books,
          stdout, raised>>

None == <<"None">>

(***************************************************************************)
(* Characters.                                                             *)
(***************************************************************************)
UpperChars == <<"A", "B", "C", "D", "E", "F", "G", "H", "I", "J", "K", "L",
                "M", "N", "O", "P", "Q", "R", "S", "T", "U", "V", "W", "X",
                "Y", "Z">>

DigitChars == <<"0", "1", "2", "3", "4", "5", "6", "7", "8", "9">>

Range(f) == {f[i] : i \in DOMAIN f}

\* [A-Z]
Upper == Range(UpperChars)

\* \d, [\d]
Digit == Range(DigitChars)

\* \s of a str pattern, and the characters str.strip() removes (those of
\* them a TLA+ string can spell)
Whitespace == {" ", "\t", "\n", "\r", "\f"}

IndexOf(seq, c) == CHOOSE i \in DOMAIN seq : seq[i] = c

\* ord(c): Python orders str values by code point
CodePoint(c) ==
    CASE c \in Digit -> 47 + IndexOf(DigitChars, c)
      [] c \in Upper -> 64 + IndexOf(UpperChars, c)
      [] c = "\t" -> 9
      [] c = "\n" -> 10
      [] c = "\f" -> 12
      [] c = "\r" -> 13
      [] c = " " -> 32
      [] c = "\"" -> 34
      [] c = "(" -> 40
      [] c = ")" -> 41
      [] c = "," -> 44
      [] c = "." -> 46
      [] c = "a" -> 97
      [] c = "b" -> 98
      [] c = "t" -> 116
      [] c = "u" -> 117
      [] c = "x" -> 120

Max(S) == CHOOSE m \in S : \A n \in S : n <= m

Min2(m, n) == IF m <= n THEN m ELSE n

(***************************************************************************)
(* str operations the program uses.                                        *)
(***************************************************************************)
\* a < b on str
StrLess(a, b) ==
    \E k \in 1..(Len(a) + 1) :
        /\ \A j \in 1..(k - 1) : j <= Len(b) /\ a[j] = b[j]
        /\ k <= Len(b)
        /\ (k > Len(a) \/ CodePoint(a[k]) < CodePoint(b[k]))

\* s.strip()
strip(s) ==
    LET keep == {i \in DOMAIN s : s[i] \notin Whitespace}
    IN IF keep = {} THEN <<>>
       ELSE SubSeq(s, CHOOSE i \in keep : \A j \in keep : i <= j, Max(keep))

\* s.replace(old, ''), old one character
replace(s, old) == SelectSeq(s, LAMBDA c : c # old)

\* int(s), s a string of digits
int(s) ==
    LET value[k \in 0..Len(s)] ==
            IF k = 0 THEN 0 ELSE 10 * value[k - 1] + (IndexOf(DigitChars, s[k]) - 1)
    IN value[Len(s)]

(***************************************************************************)
(* re.match(pattern, callnum).  The engine backtracks: each quantifier is  *)
(* greedy and takes the most repetitions for which the rest of the pattern *)
(* can still match; an optional group is taken whenever the rest can still *)
(* match after it.  Can<X>(s, i) says that the pattern from X on can match *)
(* s from position i to the end.                                           *)
(***************************************************************************)
NoMatch == [matched |-> FALSE]

\* s[i:j] with 1-based i and exclusive j
Span(s, i, j) == SubSeq(s, i, j - 1)

\* how many characters of the class follow from position i
RunLen(s, i, Class) ==
    CHOOSE n \in 0..(Len(s) - i + 1) :
        /\ \A k \in i..(i + n - 1) : s[k] \in Class
        /\ i + n > Len(s) \/ s[i + n] \notin Class

At(s, i, Class) == i <= Len(s) /\ s[i] \in Class

\* $ as an anchor at the very end only
AtVeryEnd(s, i) == i = Len(s) + 1

\* $ (no MULTILINE): at the end, or just before a newline that ends the string
AtEnd(s, i) == i = Len(s) + 1 \/ (i = Len(s) /\ s[i] = "\n")

\* \d{4}
YearDigits == 4

\* \d{1,4}
SubjectDigits == 4

\* (?P<year>\d{4}) $
TakesYear(s, i) == RunLen(s, i, Digit) >= YearDigits /\ AtEnd(s, i + YearDigits)

\* (?P<year>\d{4})? $
CanYear(s, i) == TakesYear(s, i) \/ AtEnd(s, i)

\* \s* (?P<year>\d{4})? $
CanTail(s, i) == \E w \in 0..RunLen(s, i, Whitespace) : CanYear(s, i + w)

\* (?P<extracutter>[A-Z]{1}[\d]+)? \s* (?P<year>\d{4})? $
CanExtracutter(s, i) ==
    \/ At(s, i, Upper) /\ \E n \in 1..RunLen(s, i + 1, Digit) : CanTail(s, i + 1 + n)
    \/ CanTail(s, i)

\* \s* (?P<extracutter>...)? ...
CanAfterCutter(s, i) ==
    \E w \in 0..RunLen(s, i, Whitespace) : CanExtracutter(s, i + w)

\* (?P<cutter>[A-Z]{1}[\d]+) \s* ...
CanCutter(s, i) ==
    At(s, i, Upper) /\ \E n \in 1..RunLen(s, i + 1, Digit) : CanAfterCutter(s, i + 1 + n)

\* \s* (?P<cutter>...) ...
CanAfterSubject(s, i) ==
    \E w \in 0..RunLen(s, i, Whitespace) : CanCutter(s, i + w)

\* \.) \s* (?P<cutter>...) ...
CanDot(s, i) == At(s, i, {"."}) /\ CanAfterSubject(s, i + 1)

\* \s* \.) ...
CanSubjectEnd(s, i) == \E w \in 0..RunLen(s, i, Whitespace) : CanDot(s, i + w)

\* (?:\.\d{1,4})? \s* \.) ...
CanFraction(s, i) ==
    \/ /\ At(s, i, {"."})
       /\ \E f \in 1..Min2(SubjectDigits, RunLen(s, i + 1, Digit)) :
              CanSubjectEnd(s, i + 1 + f)
    \/ CanSubjectEnd(s, i)

\* \d{1,4} (?:\.\d{1,4})? ...
CanDigits(s, i) ==
    \E d \in 1..Min2(SubjectDigits, RunLen(s, i, Digit)) : CanFraction(s, i + d)

\* (?P<subject>\s* \d{1,4} ...
CanSubject(s, i) == \E w \in 0..RunLen(s, i, Whitespace) : CanDigits(s, i + w)

\* The matcher proper walks the pattern left to right, fixing each
\* quantifier's count in turn.  Each step binds the position it reaches
\* (x \in {e}) before going on, so that the position is computed once.
Pick(S) == CHOOSE v \in S : TRUE

\* \s*(?P<year>\d{4})?$ and the match object's groups
MatchYear(s, subj, subjEnd, cut, cutEnd, extra, extraEnd) ==
    Pick({[matched |-> TRUE,
           class |-> Span(s, 1, subj),
           subject |-> Span(s, subj, subjEnd),
           cutter |-> Span(s, cut, cutEnd),
           extracutter |-> IF extra < extraEnd THEN Span(s, extra, extraEnd) ELSE None,
           year |-> IF TakesYear(s, year) THEN Span(s, year, year + YearDigits)
                    ELSE None] :
          year \in {extraEnd + Max({w \in 0..RunLen(s, extraEnd, Whitespace) :
                                       CanYear(s, extraEnd + w)})}})

\* (?P<extracutter>[A-Z]{1}[\d]+)?
MatchExtracutter(s, subj, subjEnd, cut, cutEnd, extra) ==
    LET extraLens == IF At(s, extra, Upper)
                     THEN {n \in 1..RunLen(s, extra + 1, Digit) :
                              CanTail(s, extra + 1 + n)}
                     ELSE {}
    IN Pick({MatchYear(s, subj, subjEnd, cut, cutEnd, extra, extraEnd) :
             extraEnd \in {IF extraLens # {} THEN extra + 1 + Max(extraLens)
                           ELSE extra}})

\* \s* after the cutter
MatchAfterCutter(s, subj, subjEnd, cut, cutEnd) ==
    Pick({MatchExtracutter(s, subj, subjEnd, cut, cutEnd, extra) :
          extra \in {cutEnd + Max({w \in 0..RunLen(s, cutEnd, Whitespace) :
                                      CanExtracutter(s, cutEnd + w)})}})

\* (?P<cutter>[A-Z]{1}[\d]+)
MatchCutter(s, subj, subjEnd, cut) ==
    Pick({MatchAfterCutter(s, subj, subjEnd, cut, cutEnd) :
          cutEnd \in {cut + 1 + Max({n \in 1..RunLen(s, cut + 1, Digit) :
                                        CanAfterCutter(s, cut + 1 + n)})}})

\* \s* after the subject
MatchAfterSubject(s, subj, subjEnd) ==
    Pick({MatchCutter(s, subj, subjEnd, cut) :
          cut \in {subjEnd + Max({w \in 0..RunLen(s, subjEnd, Whitespace) :
                                     CanCutter(s, subjEnd + w)})}})

\* \s*\.) closing the subject group
MatchSubjectEnd(s, subj, fracEnd) ==
    Pick({MatchAfterSubject(s, subj, subjEnd) :
          subjEnd \in {fracEnd + 1 + Max({w \in 0..RunLen(s, fracEnd, Whitespace) :
                                             CanDot(s, fracEnd + w)})}})

\* (?:\.\d{1,4})?
MatchFraction(s, subj, frac) ==
    LET fracLens == IF At(s, frac, {"."})
                    THEN {f \in 1..Min2(SubjectDigits, RunLen(s, frac + 1, Digit)) :
                             CanSubjectEnd(s, frac + 1 + f)}
                    ELSE {}
    IN Pick({MatchSubjectEnd(s, subj, fracEnd) :
             fracEnd \in {IF fracLens # {} THEN frac + 1 + Max(fracLens) ELSE frac}})

\* \d{1,4}
MatchDigits(s, subj, dig) ==
    Pick({MatchFraction(s, subj, frac) :
          frac \in {dig + Max({n \in 1..Min2(SubjectDigits, RunLen(s, dig, Digit)) :
                                  CanFraction(s, dig + n)})}})

\* (?P<subject>\s*
MatchSubject(s, subj) ==
    Pick({MatchDigits(s, subj, dig) :
          dig \in {subj + Max({w \in 0..RunLen(s, subj, Whitespace) :
                                  CanDigits(s, subj + w)})}})

\* ^(?P<class>[A-Z]+)
MatchClass(s) ==
    LET classLens == {n \in 1..RunLen(s, 1, Upper) : CanSubject(s, 1 + n)}
    IN IF classLens = {} THEN NoMatch
       ELSE Pick({MatchSubject(s, subj) : subj \in {1 + Max(classLens)}})

\* re.match(pattern, s): the match object's named groups, or no match
match(s) == Pick({MatchClass(t) : t \in {s}})

(***************************************************************************)
(* class Book                                                              *)
(***************************************************************************)
\* Book(callnum, title, author)
Book(callnum, title, author) ==
    [callnum |-> callnum, title |-> title, author |-> author]

\* the diagnostic call_num_parse prints
InvalidCallNumber ==
    <<"i", "n", "v", "a", "l", "i", "d", " ", "c", "a", "l", "l", " ",
      "n", "u", "m", "b", "e", "r">>

\* call_num_parse without the strip() of the subject group
ParsedUnstripped(m) ==
    IF m.matched
    THEN [value |-> <<m.class, m.subject,
                      IF m.extracutter # None
                      THEN m.cutter \o <<" ">> \o m.extracutter ELSE m.cutter,
                      m.year>>,
          out |-> <<>>]
    ELSE [value |-> None, out |-> <<InvalidCallNumber>>]

\* the body of call_num_parse once re.match has answered
Parsed(m) ==
    IF m.matched
    THEN LET class1 == m.class
             subject == strip(m.subject)
             cutter0 == strip(m.cutter)
             extracutter == IF m.extracutter # None
                            THEN strip(m.extracutter) ELSE None
             cutter == IF extracutter # None
                       THEN cutter0 \o <<" ">> \o extracutter ELSE cutter0
             year == IF m.year # None THEN m.year ELSE None
         IN [value |-> <<class1, subject, cutter, year>>, out |-> <<>>]
    ELSE [value |-> None, out |-> <<InvalidCallNumber>>]

\* Book.call_num_parse: value is what it returns, out is what it prints
call_num_parse(book) == Pick({Parsed(m) : m \in {match(book.callnum)}})

\* the comparison of the class parts
LtClass(self_parts, other_parts) ==
    StrLess(replace(self_parts[1], " "), replace(other_parts[1], " "))

\* the subjects compared by the number before the first period
LtSubjectNumeric(self_parts, other_parts) ==
    int(SubSeq(self_parts[2], 1, RunLen(self_parts[2], 1, Digit)))
        < int(SubSeq(other_parts[2], 1, RunLen(other_parts[2], 1, Digit)))

\* the comparison of the subject parts
LtSubject(self_parts, other_parts) ==
    StrLess(replace(self_parts[2], " "), replace(other_parts[2], " "))

\* the comparison of the cutter parts
LtCutter(self_parts, other_parts) == StrLess(self_parts[3], other_parts[3])

\* the years with a missing year sorting last
LtYearMissingLast(self_parts, other_parts) ==
    IF self_parts[4] # None /\ other_parts[4] # None
    THEN int(self_parts[4]) < int(other_parts[4])
    ELSE self_parts[4] # None /\ other_parts[4] = None

\* the years compared with <=
LtYearOrEqual(self_parts, other_parts) ==
    IF self_parts[4] # None /\ other_parts[4] # None
    THEN int(self_parts[4]) <= int(other_parts[4])
    ELSE self_parts[4] = None /\ other_parts[4] # None

\* the years with any record that has a year sorting first
LtYearPresentFirst(self_parts, other_parts) == self_parts[4] # None

\* the comparison of the years
LtYear(self_parts, other_parts) ==
    LET self_has == self_parts[4] # None
        other_has == other_parts[4] # None
    IN IF self_has /\ other_has
       THEN int(self_parts[4]) < int(other_parts[4])
       ELSE IF self_has /\ ~other_has THEN FALSE
       ELSE IF ~self_has /\ other_has THEN TRUE
       ELSE FALSE

\* Book.__lt__ once both call numbers are parsed
LtParts(self_parts, other_parts) ==
    IF replace(self_parts[1], " ") # replace(other_parts[1], " ")
    THEN LtClass(self_parts, other_parts)
    ELSE IF replace(self_parts[2], " ") # replace(other_parts[2], " ")
    THEN LtSubject(self_parts, other_parts)
    ELSE IF self_parts[3] # other_parts[3]
    THEN LtCutter(self_parts, other_parts)
    ELSE LtYear(self_parts, other_parts)

\* Book.__lt__ answering False for a call number that did not parse
ComparedInvalidFalse(self_parts, other_parts) ==
    [raised |-> "",
     value |-> IF self_parts.value = None \/ other_parts.value = None THEN FALSE
               ELSE LtParts(self_parts.value, other_parts.value),
     out |-> self_parts.out \o other_parts.out]

\* Book.__lt__ after its two calls of call_num_parse: subscripting a None
\* result raises TypeError
Compared(self_parts, other_parts) ==
    IF self_parts.value = None \/ other_parts.value = None
    THEN [raised |-> "TypeError", value |-> FALSE,
          out |-> self_parts.out \o other_parts.out]
    ELSE [raised |-> "", value |-> LtParts(self_parts.value, other_parts.value),
          out |-> self_parts.out \o other_parts.out]

\* Book.__lt__: value is what it returns, out is what it prints
__lt__(a, b) ==
    Pick({Compared(self_parts, other_parts) :
          self_parts \in {call_num_parse(a)}, other_parts \in {call_num_parse(b)}})

\* Book.__repr__
repr(book) ==
    <<"B", "o", "o", "k", "(", "\"">> \o book.callnum \o <<"\"", ",", " ", "\"">>
        \o book.title \o <<"\"", ",", " ", "\"">> \o book.author \o <<"\"", ")">>

(***************************************************************************)
(* sorted(books): CPython's list sort, which for fewer than 64 items finds *)
(* the run the list starts with (count_run), reverses it if it descends,   *)
(* and inserts the remaining items by binary search (binarysort).  Every   *)
(* comparison is Book.__lt__; one that raises ends the sort.               *)
(***************************************************************************)
RECURSIVE RunFrom(_, _, _, _)
\* count_run's loop: the run has n items so far
RunFrom(list, n, descending, out) ==
    IF n = Len(list) THEN [n |-> n, descending |-> descending, raised |-> "", out |-> out]
    ELSE Pick({IF c.raised # ""
               THEN [n |-> n, descending |-> descending, raised |-> c.raised,
                     out |-> out \o c.out]
               ELSE IF c.value = descending
               THEN Pick({RunFrom(list, m, descending, o) :
                          m \in {n + 1}, o \in {out \o c.out}})
               ELSE [n |-> n, descending |-> descending, raised |-> "",
                     out |-> out \o c.out] :
               c \in {__lt__(list[n + 1], list[n])}})

\* count_run on a list of at least two items
CountRun(list) ==
    Pick({IF c.raised # ""
          THEN [n |-> 0, descending |-> FALSE, raised |-> c.raised, out |-> c.out]
          ELSE RunFrom(list, 2, c.value, c.out) :
          c \in {__lt__(list[2], list[1])}})

\* reverse_slice: the first n items reversed
ReverseRun(list, n) ==
    [i \in 1..Len(list) |-> IF i <= n THEN list[n + 1 - i] ELSE list[i]]

RECURSIVE BinarySearch(_, _, _, _, _)
\* binarysort's inner loop: where among list[l..r-1] the pivot goes
BinarySearch(list, pivot, l, r, out) ==
    IF l >= r THEN [at |-> l, raised |-> "", out |-> out]
    ELSE Pick({Pick({IF c.raised # ""
                     THEN [at |-> 0, raised |-> c.raised, out |-> out \o c.out]
                     ELSE Pick({BinarySearch(list, pivot, l2, r2, o) :
                                l2 \in {IF c.value THEN l ELSE p + 1},
                                r2 \in {IF c.value THEN p ELSE r},
                                o \in {out \o c.out}}) :
                     c \in {__lt__(pivot, list[p])}}) :
               p \in {l + ((r - l) \div 2)}})

\* the item at start moved to position at
Insert(list, start, at) ==
    [i \in 1..Len(list) |->
        IF i < at \/ i > start THEN list[i]
        ELSE IF i = at THEN list[start]
        ELSE list[i - 1]]

RECURSIVE BinarySort(_, _, _)
\* binarysort: list[1..start-1] is sorted; insert list[start..]
BinarySort(list, start, out) ==
    IF start > Len(list) THEN [value |-> list, raised |-> "", out |-> out]
    ELSE Pick({IF f.raised # ""
               THEN [value |-> None, raised |-> f.raised, out |-> f.out]
               ELSE Pick({BinarySort(l2, s2, f.out) :
                          l2 \in {Insert(list, start, f.at)}, s2 \in {start + 1}}) :
               f \in {BinarySearch(list, list[start], 1, start, out)}})

\* sorted(list): value is the sorted list, out what the comparisons print
sorted(list) ==
    IF Len(list) < 2 THEN [value |-> list, raised |-> "", out |-> <<>>]
    ELSE Pick({IF run.raised # ""
               THEN [value |-> None, raised |-> run.raised, out |-> run.out]
               ELSE Pick({BinarySort(l2, run.n + 1, run.out) :
                          l2 \in {IF run.descending THEN ReverseRun(list, run.n)
                                  ELSE list}}) :
               run \in {CountRun(list)}})

(***************************************************************************)
(* read_books, print_books, main                                           *)
(***************************************************************************)
\* s.split(sep)
split(s, sep) ==
    LET seps == {i \in DOMAIN s : s[i] = sep}
        \* where field k starts and ends
        cut(k) == IF k = 0 THEN 0
                  ELSE IF k > Cardinality(seps) THEN Len(s) + 1
                  ELSE CHOOSE i \in seps : Cardinality({j \in seps : j < i}) = k - 1
    IN [k \in 1..(Cardinality(seps) + 1) |-> SubSeq(s, cut(k - 1) + 1, cut(k) - 1)]

\* read_books splitting the line as read, without strip()
read_books_unstripped(file) ==
    LET splitting == [i \in DOMAIN file |-> split(file[i], "\t")]
    IN IF \E i \in DOMAIN file : Len(splitting[i]) < 3
       THEN [value |-> None, raised |-> "IndexError"]
       ELSE [value |-> [i \in DOMAIN file |->
                           Book(splitting[i][3], splitting[i][1], splitting[i][2])],
             raised |-> ""]

\* read_books: the list of books, or the IndexError of the first line with
\* fewer than three fields
read_books(file) ==
    LET splitting == [i \in DOMAIN file |-> split(strip(file[i]), "\t")]
    IN IF \E i \in DOMAIN file : Len(splitting[i]) < 3
       THEN [value |-> None, raised |-> "IndexError"]
       ELSE [value |-> [i \in DOMAIN file |->
                           Book(splitting[i][3], splitting[i][1], splitting[i][2])],
             raised |-> ""]

\* print_books printing the books in the order given
print_books_unsorted(list) ==
    [raised |-> "", out |-> [i \in DOMAIN list |-> repr(list[i])]]

\* print_books: the lines printed, diagnostics included
print_books(list) ==
    Pick({IF srt.raised # ""
          THEN [raised |-> srt.raised, out |-> srt.out]
          ELSE [raised |-> "",
                out |-> srt.out \o [i \in DOMAIN srt.value |-> repr(srt.value[i])]] :
          srt \in {sorted(list)}})

(***************************************************************************)
(* Call numbers put together from grammar pieces.                          *)
(***************************************************************************)
\* the longest run of whitespace put between two tokens
MaxGap == 1

RECURSIVE SeqsUpTo(_, _)
\* the sequences over S of length at most n
SeqsUpTo(S, n) ==
    IF n = 0 THEN {<<>>}
    ELSE LET shorter == SeqsUpTo(S, n - 1)
         IN shorter \cup {Append(q, c) : q \in shorter, c \in S}

Gaps == SeqsUpTo({" ", "\t"}, MaxGap)

\* The pieces a call number is put together from: class, subject, cutter,
\* optional extracutter and optional year, and the whitespace before the
\* subject (g1), inside it before its closing period (gi), before the cutter
\* (g2), the extracutter (g3) and the year (g4).
Pieces(sets) ==
    {p \in [class : sets.class, subject : sets.subject, cutter : sets.cutter,
            extracutter : sets.extracutter, year : sets.year,
            g1 : sets.g1, gi : sets.gi, g2 : sets.g2, g3 : sets.g3, g4 : sets.g4] :
        /\ p.extracutter = None => p.g3 = <<>>
        /\ p.year = None => p.g4 = <<>>}

Opt(piece) == IF piece = None THEN <<>> ELSE piece

\* the call number the pieces spell
Build(p) ==
    p.class \o p.g1 \o SubSeq(p.subject, 1, Len(p.subject) - 1) \o p.gi \o <<".">>
        \o p.g2 \o p.cutter \o p.g3 \o Opt(p.extracutter) \o p.g4 \o Opt(p.year)

ParsePieces ==
    Pieces([class |-> {<<"Q", "A">>},
            subject |-> {<<"1", ".">>, <<"7", "6", ".", "7", "3", ".">>,
                         <<"1", "2", "3", "4", ".", "5", "6", "7", "8", ".">>},
            cutter |-> {<<"C", "1", "5">>},
            extracutter |-> {None, <<"B", "7", "3">>},
            year |-> {None, <<"2", "0", "1", "9">>},
            g1 |-> Gaps, gi |-> Gaps, g2 |-> Gaps, g3 |-> Gaps, g4 |-> Gaps])

NoPieces == [class |-> None]

NoBook == Book(None, None, None)

Title == <<"t">>

Author == <<"a">>

Idle == /\ other = NoBook /\ third = NoBook /\ result = None
        /\ lines = <<>> /\ books = <<>>

InitParse ==
    /\ pc = "ready"
    /\ pieces \in ParsePieces
    /\ self = Book(Build(pieces), Title, Author)
    /\ parts = None
    /\ stdout = <<>>
    /\ raised = ""
    /\ Idle

\* self.call_num_parse()
Parse ==
    /\ pc \in {"ready", "edited"}
    /\ \E r \in {call_num_parse(self)} :
           /\ parts' = r.value
           /\ stdout' = stdout \o r.out
    /\ pc' = "parsed"
    /\ UNCHANGED <<pieces, self, other, third, result, lines, books, raised>>

NextParse == Parse

SpecParse == InitParse /\ [][NextParse]_vars

(***************************************************************************)
(* C1.  Round trip.                                                        *)
(***************************************************************************)
\* the subject as spelled, with the whitespace before its closing period
Spelled(p) == SubSeq(p.subject, 1, Len(p.subject) - 1) \o p.gi \o <<".">>

\* cutter, or "cutter extracutter"
Joined(p) ==
    IF p.extracutter # None THEN p.cutter \o <<" ">> \o p.extracutter ELSE p.cutter

\* C1 as stated: whatever whitespace (none included) stands between the
\* tokens, call_num_parse returns exactly the pieces the call number was
\* built from.
C1_RoundTrip ==
    (pc = "parsed" /\ pieces.gi = <<>>) =>
        parts = <<pieces.class, pieces.subject, Joined(pieces), pieces.year>>

\* C1 amended: call_num_parse returns exactly the pieces whenever a year, if
\* there is one, is separated by whitespace from the cutter or extracutter
\* before it; a year that follows directly is read as four more digits of
\* that cutter and no year is returned.  Whitespace inside the subject,
\* before its closing period, is returned as part of the subject.
C1_RoundTripSeparated ==
    pc = "parsed" =>
        IF pieces.year # None /\ pieces.g4 = <<>>
        THEN parts = <<pieces.class, Spelled(pieces), Joined(pieces) \o pieces.year, None>>
        ELSE parts = <<pieces.class, Spelled(pieces), Joined(pieces), pieces.year>>

C1_Witness ==
    /\ pc = "parsed"
    /\ pieces.extracutter # None /\ pieces.year # None
    /\ pieces.subject = <<"7", "6", ".", "7", "3", ".">>
    /\ pieces.g1 # <<>> /\ pieces.gi = <<>> /\ pieces.g4 # <<>>
    /\ parts = <<pieces.class, pieces.subject, Joined(pieces), pieces.year>>

(***************************************************************************)
(* Call numbers one edit away from a well-formed one.                      *)
(***************************************************************************)
GrammarPieces ==
    Pieces([class |-> {<<"A">>},
            subject |-> {<<"1", ".">>, <<"7", "6", ".", "7", "3", ".">>},
            cutter |-> {<<"C", "1">>},
            extracutter |-> {None, <<"B", "7", "3">>},
            year |-> {None, <<"2", "0", "1", "9">>},
            g1 |-> {<<>>, <<" ">>}, gi |-> {<<>>}, g2 |-> {<<>>, <<" ">>},
            g3 |-> {<<>>, <<" ">>}, g4 |-> {<<>>, <<" ">>}])

EditChars == {"A", "a", "1", ".", " ", "\t", "\n"}

\* s with one character replaced, inserted or deleted
Edits(s) ==
    {[s EXCEPT ![i] = c] : i \in DOMAIN s, c \in EditChars}
        \cup {SubSeq(s, 1, i - 1) \o <<c>> \o SubSeq(s, i, Len(s)) :
                 i \in 1..(Len(s) + 1), c \in EditChars}
        \cup {SubSeq(s, 1, i - 1) \o SubSeq(s, i + 1, Len(s)) : i \in DOMAIN s}

InitGrammar ==
    /\ pc = "ready"
    /\ pieces = NoPieces
    /\ \E p \in GrammarPieces : self = Book(Build(p), Title, Author)
    /\ parts = None
    /\ stdout = <<>>
    /\ raised = ""
    /\ Idle

Edit ==
    /\ pc = "ready"
    /\ \E e \in Edits(self.callnum) : self' = Book(e, Title, Author)
    /\ pc' = "edited"
    /\ UNCHANGED <<pieces, other, third, parts, result, lines, books, stdout, raised>>

NextGrammar == Edit \/ Parse

SpecGrammar == InitGrammar /\ [][NextGrammar]_vars

(***************************************************************************)
(* C2.  The grammar, as a language: the positions of s a token sequence    *)
(* can end at.                                                             *)
(***************************************************************************)
\* the positions reached from P by lo..hi characters of Class
After(s, P, Class, lo, hi) ==
    {j \in 1..(Len(s) + 1) :
        \E i \in P : /\ (j - i) \in lo..hi
                     /\ \A k \in i..(j - 1) : s[k] \in Class}

AfterWs(s, P) == After(s, P, Whitespace, 0, Len(s))

\* [A-Z]\d+
AfterCutter(s, P) == After(s, After(s, P, Upper, 1, 1), Digit, 1, Len(s))

\* class subject
AfterSubjectOf(s) ==
    LET class == After(s, {1}, Upper, 1, Len(s))
        digits == After(s, AfterWs(s, class), Digit, 1, 4)
        fraction == After(s, After(s, digits, {"."}, 1, 1), Digit, 1, 4)
    IN After(s, AfterWs(s, digits \cup fraction), {"."}, 1, 1)

\* full := class subject \s* cutter \s* extracutter? \s* year?
InGrammar(s) ==
    LET cutter == AfterCutter(s, AfterWs(s, AfterSubjectOf(s)))
        ws1 == AfterWs(s, cutter)
        ws2 == AfterWs(s, ws1 \cup AfterCutter(s, ws1))
        year == After(s, ws2, Digit, 4, 4)
    IN (Len(s) + 1) \in (ws2 \cup year)

EndsWithNewline(s) == s # <<>> /\ s[Len(s)] = "\n"

\* C2 as stated: call_num_parse returns a 4-tuple exactly when the whole
\* string matches the grammar, and signals ParseError for every other string.
C2_TupleOrParseError ==
    pc = "parsed" =>
        /\ parts # None <=> InGrammar(self.callnum)
        /\ parts # None => Len(parts) = 4
        /\ ~InGrammar(self.callnum) => raised = "ParseError"

\* C2 amended: call_num_parse returns a 4-tuple exactly when the string
\* matches the grammar, or matches it up to one newline that ends the string;
\* for every other string it prints "invalid call number" and returns None,
\* raising nothing.
C2_TupleOrNone ==
    pc = "parsed" =>
        LET s == self.callnum
            accepted == \/ InGrammar(s)
                        \/ EndsWithNewline(s) /\ InGrammar(SubSeq(s, 1, Len(s) - 1))
        IN /\ parts # None <=> accepted
           /\ parts # None => Len(parts) = 4 /\ stdout = <<>>
           /\ parts = None => stdout = <<InvalidCallNumber>>
           /\ raised = ""

C2_Witness ==
    /\ pc = "parsed"
    /\ ~InGrammar(self.callnum)
    /\ parts = None
    /\ stdout = <<InvalidCallNumber>>
    /\ raised = ""

(***************************************************************************)
(* Two and three books with valid call numbers, compared.                  *)
(***************************************************************************)
\* valid call numbers that differ in every key, and in the whitespace
\* around and inside the subject
ComparePieces ==
    {p \in Pieces([class |-> {<<"A">>, <<"A", "B">>},
                   subject |-> {<<"2", ".">>, <<"1", "0", ".">>},
                   cutter |-> {<<"C", "1">>},
                   extracutter |-> {None, <<"B", "7">>, <<"B", "1", "0">>},
                   year |-> {None, <<"1", "9", "9", "9">>, <<"2", "0", "1", "9">>},
                   g1 |-> {<<>>, <<"\f">>}, gi |-> {<<>>, <<" ">>, <<"\f">>},
                   g2 |-> {<<>>}, g3 |-> {<<>>}, g4 |-> {<<>>, <<" ">>}]) :
        /\ p.year # None => p.g4 # <<>>
        /\ p.g1 = <<>> \/ p.gi = <<>>}

OrderPieces ==
    {p \in Pieces([class |-> {<<"A">>, <<"A", "B">>},
                   subject |-> {<<"2", ".">>, <<"1", "0", ".">>},
                   cutter |-> {<<"C", "1">>},
                   extracutter |-> {None, <<"B", "7">>},
                   year |-> {None, <<"1", "9", "9", "9">>, <<"2", "0", "1", "9">>},
                   g1 |-> {<<>>}, gi |-> {<<>>, <<" ">>},
                   g2 |-> {<<>>}, g3 |-> {<<>>}, g4 |-> {<<>>, <<" ">>}]) :
        /\ p.year # None => p.g4 # <<>>
        /\ p.gi # <<>> => p.subject = <<"2", ".">> /\ p.class = <<"A">>
        /\ p.extracutter # None => p.class = <<"A">>}

InitCompare ==
    /\ pc = "ready"
    /\ pieces \in ComparePieces \X ComparePieces
    /\ self = Book(Build(pieces[1]), Title, Author)
    /\ other = Book(Build(pieces[2]), Title, Author)
    /\ third = NoBook
    /\ parts = None /\ result = None /\ lines = <<>> /\ books = <<>>
    /\ stdout = <<>> /\ raised = ""

\* self < other and other < self
Compare ==
    /\ pc = "ready"
    /\ \E ab \in {__lt__(self, other)}, ba \in {__lt__(other, self)} :
           /\ result' = [ab |-> ab, ba |-> ba]
           /\ stdout' = stdout \o ab.out \o ba.out
           /\ raised' = IF ab.raised # "" THEN ab.raised ELSE ba.raised
    /\ pc' = "compared"
    /\ UNCHANGED <<pieces, self, other, third, parts, lines, books>>

NextCompare == Compare

SpecCompare == InitCompare /\ [][NextCompare]_vars

InitOrder ==
    /\ pc = "ready"
    /\ pieces \in OrderPieces \X OrderPieces \X OrderPieces
    /\ self = Book(Build(pieces[1]), Title, Author)
    /\ other = Book(Build(pieces[2]), Title, Author)
    /\ third = Book(Build(pieces[3]), Title, Author)
    /\ parts = None /\ result = None /\ lines = <<>> /\ books = <<>>
    /\ stdout = <<>> /\ raised = ""

\* self < self, self < other, other < third and self < third
CompareThree ==
    /\ pc = "ready"
    /\ \E aa \in {__lt__(self, self)}, ab \in {__lt__(self, other)},
          bc \in {__lt__(other, third)}, ac \in {__lt__(self, third)} :
           /\ result' = [aa |-> aa, ab |-> ab, bc |-> bc, ac |-> ac]
           /\ stdout' = stdout \o aa.out \o ab.out \o bc.out \o ac.out
           /\ raised' = IF \A r \in {aa, ab, bc, ac} : r.raised = "" THEN ""
                        ELSE "TypeError"
    /\ pc' = "compared"
    /\ UNCHANGED <<pieces, self, other, third, parts, lines, books>>

NextOrder == CompareThree

SpecOrder == InitOrder /\ [][NextOrder]_vars

\* the four keys of a record: its parsed class and subject without spaces,
\* its cutter and its year
Keys(book) ==
    LET p == call_num_parse(book).value
    IN <<replace(p[1], " "), replace(p[2], " "), p[3], p[4]>>

\* year x orders before year y: no year before any year, else by number
YearBefore(x, y) == y # None /\ (x = None \/ int(x) < int(y))

(***************************************************************************)
(* C3.  Lexicographic comparison, keys compared as strings.                *)
(***************************************************************************)
\* C3: self < other is decided by the first of class, subject, cutter, year
\* that differs, alone: class, subject and cutter by string order, the year
\* by its own rule; and subject "10." orders before subject "2.".
C3_Lexicographic ==
    pc = "compared" =>
        LET a == Keys(self)
            b == Keys(other)
            differing == {i \in 1..4 : a[i] # b[i]}
            first == CHOOSE i \in differing : \A j \in differing : i <= j
        IN /\ result.ab.raised = ""
           /\ result.ab.value =
                 IF differing = {} THEN FALSE
                 ELSE IF first = 4 THEN YearBefore(a[4], b[4])
                 ELSE StrLess(a[first], b[first])
           /\ (/\ a[1] = b[1] /\ a[3] = b[3]
               /\ a[2] = <<"1", "0", ".">> /\ b[2] = <<"2", ".">>)
                  => result.ab.value /\ ~result.ba.value

C3_Witness ==
    /\ pc = "compared"
    /\ Keys(self)[1] = Keys(other)[1]
    /\ Keys(self)[2] = <<"1", "0", ".">> /\ Keys(other)[2] = <<"2", ".">>
    /\ StrLess(Keys(other)[3], Keys(self)[3])
    /\ result.ab.value /\ ~result.ba.value

(***************************************************************************)
(* C4.  The year tie-break.                                                *)
(***************************************************************************)
\* C4: with equal class, subject and cutter keys, self < other is true when
\* both have years and self's is smaller, true when only other has a year,
\* false when only self has a year, false when neither has one.
C4_YearTieBreak ==
    (/\ pc = "compared"
     /\ \A i \in 1..3 : Keys(self)[i] = Keys(other)[i]) =>
        LET x == Keys(self)[4]
            y == Keys(other)[4]
        IN result.ab.value =
              CASE x # None /\ y # None -> int(x) < int(y)
                [] x = None /\ y # None -> TRUE
                [] x # None /\ y = None -> FALSE
                [] x = None /\ y = None -> FALSE

C4_Witness ==
    /\ pc = "compared"
    /\ \A i \in 1..3 : Keys(self)[i] = Keys(other)[i]
    /\ Keys(self)[4] = None /\ Keys(other)[4] # None
    /\ result.ab.value /\ ~result.ba.value

(***************************************************************************)
(* C5.  A strict order.                                                    *)
(***************************************************************************)
\* C5: a < a is never true, and a < b and b < c imply a < c.
C5_StrictOrder ==
    pc = "compared" =>
        /\ ~result.aa.value
        /\ (result.ab.value /\ result.bc.value) => result.ac.value

C5_Witness ==
    /\ pc = "compared"
    /\ result.ab.value /\ result.bc.value /\ result.ac.value
    /\ Keys(self)[1] = Keys(third)[1] /\ Keys(self)[2] # Keys(other)[2]
    /\ Keys(other)[4] # Keys(third)[4]

(***************************************************************************)
(* C6.  Totality.                                                          *)
(***************************************************************************)
\* C6 as stated: of two valid call numbers that are distinct strings, exactly
\* one orders before the other.
C6_TotalOnDistinctStrings ==
    (pc = "compared" /\ self.callnum # other.callnum) =>
        (result.ab.value /\ ~result.ba.value) \/ (~result.ab.value /\ result.ba.value)

\* C6 amended: of two valid call numbers whose keys (class and subject
\* without spaces, cutter, year) differ, exactly one orders before the other;
\* call numbers with equal keys, distinct strings or not, order neither way.
C6_TotalOnDistinctKeys ==
    pc = "compared" =>
        IF Keys(self) # Keys(other)
        THEN (result.ab.value /\ ~result.ba.value) \/ (~result.ab.value /\ result.ba.value)
        ELSE ~result.ab.value /\ ~result.ba.value

C6_Witness ==
    /\ pc = "compared"
    /\ self.callnum # other.callnum
    /\ Keys(self) = Keys(other)
    /\ ~result.ab.value /\ ~result.ba.value

(***************************************************************************)
(* C10.  Whitespace around and inside the subject.                         *)
(***************************************************************************)
\* C10: two valid call numbers that differ only in the whitespace (any \s
\* character) around or inside the subject order neither way.
C10_WhitespaceInsignificant ==
    (/\ pc = "compared"
     /\ \A f \in {"class", "subject", "cutter", "extracutter", "year", "g3", "g4"} :
            pieces[1][f] = pieces[2][f]) =>
        ~result.ab.value /\ ~result.ba.value

(***************************************************************************)
(* main(filename): read_books, then print_books.                           *)
(***************************************************************************)
\* the most lines of an input file
MaxBooks == 3

\* the line of a record in the input file
Line(title, author, callnum) ==
    title \o <<"\t">> \o author \o <<"\t">> \o callnum \o <<"\n">>

ValidCallnums ==
    {<<"A", "2", ".", "C", "1">>,
     <<"A", " ", "2", ".", "C", "1">>,
     <<"A", "1", "0", ".", "C", "1">>,
     <<"A", "2", ".", "C", "1", " ", "1", "9", "9", "9">>,
     <<"A", "2", ".", "C", "1", " ", "2", "0", "1", "9">>}

InvalidCallnums == {<<"a", "2", ".", "C", "1">>, <<"A", "2", ".", "C">>}

MainLines ==
    {Line(Title, Author, c) : c \in ValidCallnums \cup InvalidCallnums}
        \cup {Line(<<"u">>, Author, <<"A", "2", ".", "C", "1">>)}

InitMain ==
    /\ pc = "read"
    /\ lines \in SeqsUpTo(MainLines, MaxBooks)
    /\ books = <<>>
    /\ stdout = <<>>
    /\ raised = ""
    /\ pieces = NoPieces /\ self = NoBook /\ other = NoBook /\ third = NoBook
    /\ parts = None /\ result = None

\* books = read_books(filename)
ReadBooks ==
    /\ pc = "read"
    /\ \E r \in {read_books(lines)} :
           /\ raised' = r.raised
           /\ books' = IF r.raised = "" THEN r.value ELSE books
           /\ pc' = IF r.raised = "" THEN "print" ELSE "exit"
    /\ UNCHANGED <<pieces, self, other, third, parts, result, lines, stdout>>

\* print_books(books)
PrintBooks ==
    /\ pc = "print"
    /\ \E r \in {print_books(books)} :
           /\ raised' = r.raised
           /\ stdout' = stdout \o r.out
    /\ pc' = "exit"
    /\ UNCHANGED <<pieces, self, other, third, parts, result, lines, books>>

NextMain == ReadBooks \/ PrintBooks

SpecMain == InitMain /\ [][NextMain]_vars

Valid(book) == call_num_parse(book).value # None

\* the one-to-one maps of 1..n onto itself
Perms(n) == {f \in [1..n -> 1..n] : \A i, j \in 1..n : f[i] = f[j] => i = j}

(***************************************************************************)
(* C7.  The output is the input, sorted.                                   *)
(***************************************************************************)
\* C7: when every record has a valid call number, the run prints the
\* records, each once, so that no record printed later orders before one
\* printed earlier; of two records with equal class, subject and cutter that
\* both have a year, the one with the later year is never printed first.
C7_SortedOutput ==
    (pc = "exit" /\ \A i \in DOMAIN books : Valid(books[i])) =>
        /\ raised = ""
        /\ \E f \in Perms(Len(books)) :
               /\ stdout = [i \in DOMAIN books |-> repr(books[f[i]])]
               /\ \A i, j \in DOMAIN books :
                      i < j =>
                          /\ ~__lt__(books[f[j]], books[f[i]]).value
                          /\ (/\ \A k \in 1..3 : Keys(books[f[i]])[k] = Keys(books[f[j]])[k]
                              /\ Keys(books[f[i]])[4] # None
                              /\ Keys(books[f[j]])[4] # None)
                                 => int(Keys(books[f[i]])[4]) <= int(Keys(books[f[j]])[4])

C7_Witness ==
    /\ pc = "exit" /\ raised = ""
    /\ Len(books) = 3
    /\ books[1].callnum = <<"A", "2", ".", "C", "1", " ", "2", "0", "1", "9">>
    /\ books[2].callnum = <<"A", "1", "0", ".", "C", "1">>
    /\ books[3].callnum = <<"A", "2", ".", "C", "1", " ", "1", "9", "9", "9">>
    /\ stdout = <<repr(books[2]), repr(books[3]), repr(books[1])>>

(***************************************************************************)
(* C8.  A call number that does not parse.                                 *)
(***************************************************************************)
\* C8 as stated: a run whose input holds a record with an invalid call
\* number, however many records there are, ends in a fatal error and prints
\* no such record.
C8_InvalidIsFatal ==
    (pc = "exit" /\ \E i \in DOMAIN books : ~Valid(books[i])) =>
        /\ raised # ""
        /\ \A i \in DOMAIN books, k \in DOMAIN stdout :
               ~Valid(books[i]) => stdout[k] # repr(books[i])

\* C8 amended: a run whose input holds two or more records, one of them
\* with an invalid call number, ends in a fatal error (the TypeError of the
\* first comparison that meets such a record) and prints no record, only
\* "invalid call number"; a run whose only record has an invalid call number
\* compares nothing, ends normally and prints that record.
C8_InvalidIsFatalAmongSeveral ==
    (pc = "exit" /\ \E i \in DOMAIN books : ~Valid(books[i])) =>
        IF Len(books) >= 2
        THEN /\ raised = "TypeError"
             /\ stdout # <<>>
             /\ \A k \in DOMAIN stdout : stdout[k] = InvalidCallNumber
        ELSE /\ raised = ""
             /\ stdout = <<repr(books[1])>>

C8_Witness ==
    /\ pc = "exit"
    /\ Len(books) = 3
    /\ Valid(books[1]) /\ Valid(books[2]) /\ ~Valid(books[3])
    /\ raised = "TypeError"
    /\ stdout = <<InvalidCallNumber>>

(***************************************************************************)
(* read_books on lines of any shape.                                       *)
(***************************************************************************)
\* the longest line read, its newline not counted
MaxLineLen == 5

ReadChars == {"a", "b", "\t", " "}

GoodLine == Line(Title, Author, <<"A", "2", ".", "C", "1">>)

ReadFiles ==
    {<<l \o <<"\n">>>> : l \in SeqsUpTo(ReadChars, MaxLineLen)}
        \cup {<<GoodLine, l \o <<"\n">>>> : l \in SeqsUpTo(ReadChars, MaxLineLen)}

InitRead ==
    /\ pc = "read"
    /\ lines \in ReadFiles
    /\ books = <<>>
    /\ stdout = <<>>
    /\ raised = ""
    /\ pieces = NoPieces /\ self = NoBook /\ other = NoBook /\ third = NoBook
    /\ parts = None /\ result = None

NextRead == ReadBooks

SpecRead == InitRead /\ [][NextRead]_vars

\* how many tab-separated fields the stripped line has
FieldCount(line) ==
    1 + Cardinality({i \in DOMAIN strip(line) : strip(line)[i] = "\t"})

\* t starts with the three fields of book b, in the order title, author,
\* callnum, and the callnum field ends where b's does
StartsWithFields(t, b) ==
    LET head == b.title \o <<"\t">> \o b.author \o <<"\t">> \o b.callnum
    IN /\ \A f \in {b.title, b.author, b.callnum} : \A i \in DOMAIN f : f[i] # "\t"
       /\ Len(head) <= Len(t)
       /\ SubSeq(t, 1, Len(head)) = head
       /\ Len(t) = Len(head) \/ t[Len(head) + 1] = "\t"

(***************************************************************************)
(* C9.  Malformed lines.                                                   *)
(***************************************************************************)
\* C9 as stated: read_books fails, with no list of records, when a stripped
\* line has fewer or more than three fields; a line of exactly three fields
\* becomes the record of its title, author and callnum.
C9_ExactlyThreeFields ==
    pc # "read" =>
        IF \E i \in DOMAIN lines : FieldCount(lines[i]) # 3
        THEN raised = "IndexError" /\ books = <<>>
        ELSE /\ raised = ""
             /\ Len(books) = Len(lines)
             /\ \A i \in DOMAIN lines : StartsWithFields(strip(lines[i]), books[i])

\* C9 amended: read_books fails, with no list of records, when a stripped
\* line has fewer than three fields; a line of three or more fields becomes
\* the record of its first three fields, title, author and callnum, the
\* fields after the third being ignored.
C9_AtLeastThreeFields ==
    pc # "read" =>
        IF \E i \in DOMAIN lines : FieldCount(lines[i]) < 3
        THEN raised = "IndexError" /\ books = <<>>
        ELSE /\ raised = ""
             /\ Len(books) = Len(lines)
             /\ \A i \in DOMAIN lines : StartsWithFields(strip(lines[i]), books[i])

C9_Witness ==
    /\ pc = "print"
    /\ Len(lines) = 2
    /\ FieldCount(lines[2]) = 4
    /\ raised = ""
    /\ Len(books) = 2
    /\ books[2].title = <<"a">> /\ books[2].callnum = <<>>

=============================================================================
